---- MODULE Spec2Model ----
(***************************************************************************)
(* Model of src/main.py: fetch_gsc_data, the incremental sync of Search    *)
(* Console rows into the four worksheets of one spreadsheet.               *)
(*                                                                         *)
(* A string is a sequence of naturals compared lexicographically, as       *)
(* Python compares str.  The date string "YYYY-MM-DD" is <<Y, M, D>>: the  *)
(* three fields are zero-padded and of fixed width, so comparing the       *)
(* strings compares the fields in order.  A calendar date is its           *)
(* proleptic Gregorian ordinal (datetime.date.toordinal).  A worksheet row *)
(* is modelled by its first cell, the only cell the program reads.         *)
(***************************************************************************)
EXTENDS Integers, Sequences, FiniteSets, TLC

\* ---------------------------------------------------------------- bounds
\* Number of runs of fetch_gsc_data in one behaviour.
MaxRuns == 2
\* 'today' moves forward by 0..MaxAdvance days between two runs.
MaxAdvance == 1
\* A response of the reporting API holds rows for the most recent
\* MaxBack days of the requested window, up to some day of them.
MaxBack == 2

\* ------------------------------------------------------ program constants
RAW_SHEET == "Raw_Data"
TOTAL_SHEET == "Daily_Total"
DEVICE_SHEET == "Device_Data"
QUERY_SHEET == "Query_Data"
\* end_date = today - timedelta(days=3)
FreshnessLagDays == 3
\* start_date = today - timedelta(days=400)
InitialBackfillDays == 400

Targets == {RAW_SHEET, TOTAL_SHEET, DEVICE_SHEET, QUERY_SHEET}
\* order of the ensure_worksheet calls
EnsureOrder == <<RAW_SHEET, TOTAL_SHEET, DEVICE_SHEET, QUERY_SHEET>>
\* order of the four fetch/append blocks inside the try
FetchOrder == <<TOTAL_SHEET, RAW_SHEET, DEVICE_SHEET, QUERY_SHEET>>

None == <<>>

\* ----------------------------------------------------------------- dates
IsLeap(y) == (y % 4 = 0) /\ ((y % 100 # 0) \/ (y % 400 = 0))

DaysInMonth(y, m) ==
    IF m = 2 THEN (IF IsLeap(y) THEN 29 ELSE 28)
    ELSE IF m \in {4, 6, 9, 11} THEN 30 ELSE 31

DaysBeforeYear(y) ==
    (y - 1) * 365 + ((y - 1) \div 4) - ((y - 1) \div 100) + ((y - 1) \div 400)

RECURSIVE DaysBeforeMonth(_, _)
DaysBeforeMonth(y, m) ==
    IF m = 1 THEN 0 ELSE DaysBeforeMonth(y, m - 1) + DaysInMonth(y, m - 1)

\* date(y, m, d).toordinal()
Ymd2Ord(y, m, d) == DaysBeforeYear(y) + DaysBeforeMonth(y, m) + d

\* date.fromordinal(n) as <<y, m, d>>
Ord2Ymd(n) ==
    LET y == CHOOSE yy \in (n \div 366)..((n \div 365) + 1) :
                 DaysBeforeYear(yy) < n /\ n <= DaysBeforeYear(yy + 1)
        r == n - DaysBeforeYear(y)
        m == CHOOSE mm \in 1..12 :
                 DaysBeforeMonth(y, mm) < r
                 /\ r <= DaysBeforeMonth(y, mm) + DaysInMonth(y, mm)
    IN <<y, m, r - DaysBeforeMonth(y, m)>>

\* d.strftime('%Y-%m-%d')
Strftime(n) == Ord2Ymd(n)

\* datetime.strptime(s, '%Y-%m-%d').date()
Strptime(s) == Ymd2Ord(s[1], s[2], s[3])

\* The header cell 'date'.  The first field of a date string is a four-digit
\* year; a letter sorts after every digit, so the header is greater than
\* every date string.
HeaderCell == <<10000>>

\* Python's str <=
StrLeq(a, b) ==
    LET n == IF Len(a) < Len(b) THEN Len(a) ELSE Len(b)
        diff == {i \in 1..n : a[i] # b[i]}
    IN IF diff = {} THEN Len(a) <= Len(b)
       ELSE LET k == CHOOSE i \in diff : \A j \in diff : i <= j
            IN a[k] < b[k]

Range(s) == {s[i] : i \in 1..Len(s)}

\* Python's max() of a non-empty list of str
PyMax(s) == CHOOSE x \in Range(s) : \A y \in Range(s) : StrLeq(y, x)

\* s[1:]
Tail1(s) == IF Len(s) = 0 THEN <<>> ELSE SubSeq(s, 2, Len(s))

\* ------------------------------------------------------------ the sink
\* A worksheet: whether the tab exists, and column 1 of its rows in order.
NoSheet == [exists |-> FALSE, rows |-> <<>>]

\* worksheet.col_values(1)
col_values(ws) == ws.rows

\* worksheet.row_values(1): empty exactly when row 1 is absent
row_values(ws) == IF Len(ws.rows) = 0 THEN <<>> ELSE <<ws.rows[1]>>

\* ensure_worksheet with the header written on every call
ensure_worksheet_AlwaysHeader(ws) ==
    [ws EXCEPT !.exists = TRUE, !.rows = Append(ws.rows, HeaderCell)]

\* ensure_worksheet, when no call in it raises: the tab exists afterwards and
\* the header is appended only when row 1 is empty.
ensure_worksheet(ws) ==
    LET worksheet == [ws EXCEPT !.exists = TRUE]
    IN IF row_values(worksheet) = <<>>
       THEN [worksheet EXCEPT !.rows = Append(worksheet.rows, HeaderCell)]
       ELSE worksheet

\* ensure_worksheet, when a call in it raises: add_worksheet may already
\* have created the tab (created), nothing else is written.
ensure_worksheet_raises(ws, created) ==
    IF created THEN [ws EXCEPT !.exists = TRUE] ELSE ws

\* get_last_date: None when col_values raises (the except branch) or when
\* there is no row after the first, else the greatest string.
get_last_date(ws, raises) ==
    IF raises THEN None
    ELSE LET dates == Tail1(col_values(ws))
         IN IF dates = <<>> THEN None ELSE PyMax(dates)

\* worksheet.append_rows(data)
append_rows(ws, data) == [ws EXCEPT !.rows = ws.rows \o data]

\* ----------------------------------------------------------- credentials
\* What the process finds: the environment variable (well-formed or not),
\* else the file, else nothing.
CredEnvs == {"env", "env_malformed", "file", "none"}

\* get_credentials with the final else returning a credentials object
get_credentials_NeverNone(env) ==
    IF env = "env_malformed" THEN "raise" ELSE "creds"

\* get_credentials: a credentials object, None, or an exception
\* (json.loads on a malformed GCP_CREDENTIALS).
get_credentials(env) ==
    IF env \in {"env", "env_malformed"}
    THEN (IF env = "env" THEN "creds" ELSE "raise")
    ELSE IF env = "file" THEN "creds"
    ELSE "None"

\* get_gspread_client
get_gspread_client(env) ==
    LET creds == get_credentials(env)
    IN IF creds = "None" THEN "None"
       ELSE IF creds = "raise" THEN "raise" ELSE "client"

\* ------------------------------------------------------- reporting API
Max2(a, b) == IF a > b THEN a ELSE b

RECURSIVE DayRows(_, _)
\* one row per day lo..hi, keys[0] being the day's date string
DayRows(lo, hi) ==
    IF lo > hi THEN <<>> ELSE <<Strftime(lo)>> \o DayRows(lo + 1, hi)

\* The bodies searchanalytics().query().execute() can return for a request
\* with the given startDate and endDate: no 'rows' key, or rows whose dates
\* lie in the window.
Responses(startDate, endDate) ==
    LET s == Strptime(startDate)
        e == Strptime(endDate)
        lo == Max2(s, e - MaxBack + 1)
    IN {[hasRows |-> FALSE, rows |-> <<>>]}
       \cup {[hasRows |-> TRUE, rows |-> DayRows(lo, k)] : k \in (lo - 1)..e}

\* resp.get('rows', [])
RespGet(resp) == IF resp.hasRows THEN resp.rows ELSE <<>>

\* ------------------------------------------------------------ window
\* end_date = today - timedelta(days=3)
PlanEnd(t) == t - FreshnessLagDays

\* PlanStart without the added day
PlanStart_SameDay(last, t) ==
    IF last = None THEN t - InitialBackfillDays
    ELSE Strptime(last)

\* start_date: the backfill start without a last date, else the day after
PlanStart(last, t) ==
    IF last = None THEN t - InitialBackfillDays
    ELSE Strptime(last) + 1

\* Truthy with the test dropped
Truthy_Always(rows) == TRUE

\* if rows: (a non-empty list is truthy)
Truthy(rows) == rows # <<>>

\* where control goes after block i ends normally
AfterBlock(i) ==
    IF i < Len(FetchOrder)
    THEN [pc |-> "fetch", idx |-> i + 1, outcome |-> "none"]
    ELSE [pc |-> "done", idx |-> i, outcome |-> "completed"]

\* OnException with one try per block: the run goes on with the next block
OnException_PerBlock(i) == AfterBlock(i)

\* OnException with a retry: the block that raised is run again
OnException_Retry(i) == [pc |-> "fetch", idx |-> i, outcome |-> "none"]

\* where control goes when a fetch or an append of block i raises: the
\* single except clause after the fourth block, then the function returns
OnException(i) == [pc |-> "done", idx |-> i, outcome |-> "error"]


\* ------------------------------------------------------------- the state
VARIABLES
    sheets,         \* the spreadsheet: worksheet name -> worksheet
    today,          \* datetime.date.today(), an ordinal
    runs,           \* number of runs of fetch_gsc_data started
    credEnv,        \* what get_credentials finds in this run
    pc,             \* position of the run inside fetch_gsc_data
    idx,            \* index of the worksheet or block being worked on
    last_date_str,  \* local of the run
    start_date,     \* local of the run
    end_date,       \* local of the run
    rows,           \* rows of the block being worked on
    outcome,        \* how the run ended
    st,             \* per target, what this run did with it
    nrows,          \* per target, rows its fetch returned in this run (-1: none yet)
    sinkOps,        \* calls of this run on the spreadsheet or a worksheet
    readFailed,     \* col_values raised in this run's get_last_date
    sheets0,        \* the spreadsheet when the run started
    prev,           \* window and per-target results of the previous run
    log             \* the calls this run made on the sink and the API, in order

vars == <<sheets, today, runs, credEnv, pc, idx, last_date_str, start_date,
          end_date, rows, outcome, st, nrows, sinkOps, readFailed, sheets0, prev,
          log>>

locals == <<last_date_str, start_date, end_date, rows>>

\* 2024-06-10
Today0 == Ymd2Ord(2024, 6, 10)

Pending == [t \in Targets |-> "pending"]
NotFetched == [t \in Targets |-> -1]
NoPrev == [planned |-> FALSE, start |-> 0, end |-> 0, st |-> Pending]

\* the run got as far as a window
Planned == pc \in {"fetch", "append"}
           \/ (pc = "done" /\ outcome \in {"noop", "completed", "error"})

\* one call in the log: what was called, on which worksheet, whether it
\* returned, the rows it carried, and the date range of a query
Ev(op, t, ok, n, range) == [op |-> op, t |-> t, ok |-> ok, n |-> n, range |-> range]
Logged(e) == log' = Append(log, e)

\* date_range read again from the anchor worksheet at the time of the request
date_range_Reread ==
    LET last == get_last_date(sheets[TOTAL_SHEET], FALSE)
    IN <<Strftime(PlanStart(last, today)), Strftime(PlanEnd(today))>>

\* date_range = {'startDate': ..., 'endDate': ...}, built once from the
\* run's start_date and end_date and spread into every request body
date_range == <<Strftime(start_date), Strftime(end_date)>>

\* the except clause of the setup try, with the return missing
OnSetupError_NoReturn == [pc |-> "build", idx |-> 0, outcome |-> "setup_failed"]

\* where control goes when client.open or an ensure_worksheet call raises:
\* the except clause prints and the function returns
OnSetupError == [pc |-> "done", idx |-> idx, outcome |-> "setup_failed"]

\* exit status of the process for a run that ended with the given outcome:
\* an exception that leaves fetch_gsc_data ends the interpreter with 1, a
\* return lets __main__ run to its end, status 0
ExitStatus(o) == IF o = "crashed" THEN 1 ELSE 0

Init ==
    /\ sheets = [t \in Targets |-> NoSheet]
    /\ today = Today0
    /\ runs = 0
    /\ credEnv = "none"
    /\ pc = "idle"
    /\ idx = 0
    /\ last_date_str = None
    /\ start_date = 0
    /\ end_date = 0
    /\ rows = <<>>
    /\ outcome = "none"
    /\ st = Pending
    /\ nrows = NotFetched
    /\ sinkOps = 0
    /\ readFailed = FALSE
    /\ sheets0 = sheets
    /\ prev = NoPrev
    /\ log = <<>>

\* The scheduler starts a run (__main__), some days after the previous one.
StartRun ==
    /\ pc \in {"idle", "done"}
    /\ runs < MaxRuns
    /\ runs' = runs + 1
    /\ \E env \in CredEnvs : credEnv' = env
    /\ \E adv \in 0..MaxAdvance : today' = (IF runs = 0 THEN today ELSE today + adv)
    /\ pc' = "begin"
    /\ idx' = 0
    /\ last_date_str' = None
    /\ start_date' = 0
    /\ end_date' = 0
    /\ rows' = <<>>
    /\ outcome' = "none"
    /\ st' = Pending
    /\ nrows' = NotFetched
    /\ sinkOps' = 0
    /\ readFailed' = FALSE
    /\ sheets0' = sheets
    /\ prev' = [planned |-> Planned, start |-> start_date, end |-> end_date, st |-> st]
    /\ log' = <<>>
    /\ UNCHANGED sheets

\* goto: set pc, idx and outcome from a control record
Goto(c) == pc' = c.pc /\ idx' = c.idx /\ outcome' = c.outcome

\* creds = get_credentials(); client = get_gspread_client()
Credentials ==
    /\ pc = "begin"
    /\ LET creds == get_credentials(credEnv)
           client == get_gspread_client(credEnv)
       IN IF creds = "raise"
          THEN pc' = "done" /\ outcome' = "crashed"
          ELSE IF creds = "None"
          THEN pc' = "done" /\ outcome' = "no_credentials"
          ELSE IF client = "raise"
          THEN pc' = "done" /\ outcome' = "crashed"
          ELSE IF client = "None"
          THEN pc' = "done" /\ outcome' = "no_client"
          ELSE pc' = "open" /\ outcome' = outcome
    /\ UNCHANGED <<sheets, today, runs, credEnv, idx, locals, st, nrows,
                   sinkOps, readFailed, sheets0, prev, log>>

\* sh = client.open(SHEET_NAME)
OpenOk ==
    /\ pc = "open"
    /\ pc' = "ensure"
    /\ idx' = 1
    /\ sinkOps' = sinkOps + 1
    /\ Logged(Ev("open", "", TRUE, 0, <<>>))
    /\ UNCHANGED <<sheets, today, runs, credEnv, locals, outcome, st, nrows,
                   readFailed, sheets0, prev>>

\* client.open raises: the except clause prints and returns
OpenFail ==
    /\ pc = "open"
    /\ Goto(OnSetupError)
    /\ sinkOps' = sinkOps + 1
    /\ Logged(Ev("open", "", FALSE, 0, <<>>))
    /\ UNCHANGED <<sheets, today, runs, credEnv, locals, st, nrows,
                   readFailed, sheets0, prev>>

\* the idx-th ensure_worksheet call returns
EnsureOk ==
    /\ pc = "ensure"
    /\ LET t == EnsureOrder[idx]
       IN sheets' = [sheets EXCEPT ![t] = ensure_worksheet(sheets[t])]
    /\ IF idx < Len(EnsureOrder)
       THEN pc' = "ensure" /\ idx' = idx + 1
       ELSE pc' = "build" /\ idx' = 0
    /\ sinkOps' = sinkOps + 1
    /\ Logged(Ev("ensure", EnsureOrder[idx], TRUE, 0, <<>>))
    /\ UNCHANGED <<today, runs, credEnv, locals, outcome, st, nrows,
                   readFailed, sheets0, prev>>

\* the idx-th ensure_worksheet call raises: the except clause returns
EnsureFail ==
    /\ pc = "ensure"
    /\ LET t == EnsureOrder[idx]
       IN \E created \in BOOLEAN :
            /\ created => ~sheets[t].exists
            /\ sheets' = [sheets EXCEPT ![t] = ensure_worksheet_raises(sheets[t], created)]
    /\ Goto(OnSetupError)
    /\ sinkOps' = sinkOps + 1
    /\ Logged(Ev("ensure", EnsureOrder[idx], FALSE, 0, <<>>))
    /\ UNCHANGED <<today, runs, credEnv, locals, st, nrows,
                   readFailed, sheets0, prev>>

\* service = build('searchconsole', 'v1', credentials=creds)
BuildOk ==
    /\ pc = "build"
    /\ pc' = "plan"
    /\ UNCHANGED <<sheets, today, runs, credEnv, idx, locals, outcome, st, nrows,
                   sinkOps, readFailed, sheets0, prev, log>>

\* build raises outside every try: the exception leaves fetch_gsc_data
BuildFail ==
    /\ pc = "build"
    /\ pc' = "done"
    /\ outcome' = "crashed"
    /\ UNCHANGED <<sheets, today, runs, credEnv, idx, locals, st, nrows,
                   sinkOps, readFailed, sheets0, prev, log>>

\* get_last_date(total_ws), the window, and the start_date > end_date gate
Plan ==
    /\ pc = "plan"
    /\ \E raises \in BOOLEAN :
         LET last == get_last_date(sheets[TOTAL_SHEET], raises)
             e == PlanEnd(today)
             s == PlanStart(last, today)
         IN /\ readFailed' = raises
            /\ last_date_str' = last
            /\ end_date' = e
            /\ start_date' = s
            /\ IF s > e
               THEN pc' = "done" /\ outcome' = "noop" /\ idx' = 0
               ELSE pc' = "fetch" /\ outcome' = outcome /\ idx' = 1
            /\ Logged(Ev("read", TOTAL_SHEET, ~raises, 0, <<>>))
    /\ sinkOps' = sinkOps + 1
    /\ UNCHANGED <<sheets, today, runs, credEnv, rows, st, nrows, sheets0, prev>>

\* block idx: query(...).execute() returns; rows = resp.get('rows', [])
FetchOk ==
    /\ pc = "fetch"
    /\ LET t == FetchOrder[idx]
           range == date_range
       IN \E resp \in Responses(range[1], range[2]) :
            LET got == RespGet(resp)
            IN /\ nrows' = [nrows EXCEPT ![t] = Len(got)]
               /\ Logged(Ev("fetch", t, TRUE, Len(got), range))
               /\ IF Truthy(got)
                  THEN /\ rows' = got
                       /\ st' = [st EXCEPT ![t] = "fetched"]
                       /\ pc' = "append"
                       /\ UNCHANGED <<idx, outcome>>
                  ELSE /\ rows' = <<>>
                       /\ st' = [st EXCEPT ![t] = "empty"]
                       /\ Goto(AfterBlock(idx))
    /\ UNCHANGED <<sheets, today, runs, credEnv, last_date_str, start_date,
                   end_date, sinkOps, readFailed, sheets0, prev>>

\* block idx: query(...).execute() raises
FetchFail ==
    /\ pc = "fetch"
    /\ st' = [st EXCEPT ![FetchOrder[idx]] = "fetch_failed"]
    /\ Goto(OnException(idx))
    /\ Logged(Ev("fetch", FetchOrder[idx], FALSE, 0, date_range))
    /\ UNCHANGED <<sheets, today, runs, credEnv, locals, nrows, sinkOps,
                   readFailed, sheets0, prev>>

\* block idx: append_rows returns
AppendOk ==
    /\ pc = "append"
    /\ LET t == FetchOrder[idx]
       IN /\ sheets' = [sheets EXCEPT ![t] = append_rows(sheets[t], rows)]
          /\ st' = [st EXCEPT ![t] = "appended"]
    /\ rows' = <<>>
    /\ Goto(AfterBlock(idx))
    /\ sinkOps' = sinkOps + 1
    /\ Logged(Ev("append", FetchOrder[idx], TRUE, Len(rows), <<>>))
    /\ UNCHANGED <<today, runs, credEnv, last_date_str, start_date, end_date,
                   nrows, readFailed, sheets0, prev>>

\* block idx: append_rows raises, nothing is written
AppendFail ==
    /\ pc = "append"
    /\ st' = [st EXCEPT ![FetchOrder[idx]] = "append_failed"]
    /\ rows' = <<>>
    /\ Goto(OnException(idx))
    /\ sinkOps' = sinkOps + 1
    /\ Logged(Ev("append", FetchOrder[idx], FALSE, Len(rows), <<>>))
    /\ UNCHANGED <<sheets, today, runs, credEnv, last_date_str, start_date,
                   end_date, nrows, readFailed, sheets0, prev>>

Next ==
    \/ StartRun
    \/ Credentials
    \/ OpenOk
    \/ OpenFail
    \/ EnsureOk
    \/ EnsureFail
    \/ BuildOk
    \/ BuildFail
    \/ Plan
    \/ FetchOk
    \/ FetchFail
    \/ AppendOk
    \/ AppendFail

Spec == Init /\ [][Next]_vars

\* a step of the run in progress: everything but the start of a new run
RunStep ==
    \/ Credentials
    \/ OpenOk
    \/ OpenFail
    \/ EnsureOk
    \/ EnsureFail
    \/ BuildOk
    \/ BuildFail
    \/ Plan
    \/ FetchOk
    \/ FetchFail
    \/ AppendOk
    \/ AppendFail

\* ------------------------------------------------------------- the claims
Failed == {"fetch_failed", "append_failed"}
NonAnchor == Targets \ {TOTAL_SHEET}

\* the rows of a worksheet below its header row
DataRows(ws) == Tail1(ws.rows)
HasData(ws) == DataRows(ws) # <<>>
\* the days of the data rows of a worksheet
DataDays(ws) == {Strptime(r) : r \in Range(DataRows(ws))}
\* the latest day among the data rows of a worksheet that has some
MaxDay(ws) == CHOOSE d \in DataDays(ws) : \A x \in DataDays(ws) : x <= d

\* no fetch was issued and no append made for target t in this run
Untouched(t) ==
    /\ st[t] = "pending"
    /\ nrows[t] = -1
    /\ DataRows(sheets[t]) = DataRows(sheets0[t])

\* C1: when the fetch of the second target (Raw_Data) fails, the run still
\* attempts Device_Data and Query_Data: at the end of the run neither is
\* left without a fetch.
C1_PartialFailureIsolation ==
    (pc = "done" /\ st[RAW_SHEET] = "fetch_failed")
        => (st[DEVICE_SHEET] # "pending" /\ st[QUERY_SHEET] # "pending")

\* C2: when the fetch or the append of the anchor target (Daily_Total)
\* fails, the run is over and no other target was fetched or appended to.
C2_AnchorFailureAbort ==
    st[TOTAL_SHEET] \in Failed
        => (pc = "done" /\ \A t \in NonAnchor : Untouched(t))

C2_Witness ==
    pc = "done" /\ st[TOTAL_SHEET] = "append_failed" /\ nrows[TOTAL_SHEET] > 0

\* C3: when the previous run appended to the anchor and the fetch or append
\* of a non-anchor target failed in it, this run fetches a window that
\* covers again the days of the previous run's window.
C3_NaturalRetry ==
    (Planned /\ prev.planned /\ prev.st[TOTAL_SHEET] = "appended"
     /\ \E t \in NonAnchor : prev.st[t] \in Failed)
        => (outcome # "noop" /\ start_date <= prev.start /\ prev.end <= end_date)

\* C4: the window a run fetches holds no day for which some target already
\* stores rows appended by an earlier run.  (Stated for runs whose read of
\* the anchor column succeeded: the violation does not need a failed read.)
C4_NoDuplication ==
    (Planned /\ outcome # "noop" /\ ~readFailed)
        => \A t \in Targets :
             \A d \in DataDays(sheets0[t]) : ~(d \in start_date..end_date)

\* C5: when the anchor target's latest stored day W has W + 1 day later than
\* today - 3 days, the run issues no fetch, writes nothing to any target,
\* and the anchor's latest stored day is still W.
C5_NoOpSafety ==
    (runs > 0 /\ HasData(sheets0[TOTAL_SHEET])
     /\ MaxDay(sheets0[TOTAL_SHEET]) + 1 > today - 3)
        => /\ \A t \in Targets : st[t] = "pending" /\ nrows[t] = -1
           /\ sheets = sheets0
           /\ MaxDay(sheets[TOTAL_SHEET]) = MaxDay(sheets0[TOTAL_SHEET])

\* C6: the window of a run ends 3 days before today; it starts 400 days
\* before today when the run has no last date, and otherwise on the day
\* after the last date: the day before start_date formats to that string.
C6_WindowPlanning ==
    Planned =>
        /\ end_date = today - 3
        /\ (last_date_str = None => start_date = today - 400)
        /\ (last_date_str # None => Strftime(start_date - 1) = last_date_str)

C6_Witness ==
    pc = "fetch" /\ last_date_str # None /\ start_date < end_date

\* C7: when reading the anchor target's date column fails in a run on an
\* anchor that holds data, that run issues no fetch and makes no append.
C7_AnchorReadFailureAborts ==
    (readFailed /\ HasData(sheets0[TOTAL_SHEET]))
        => \A t \in Targets : Untouched(t)

\* C8: a target whose fetch returned zero rows gets no append and no row,
\* is not the block the run's error came from, and the run goes on to the
\* fetch of the next target (or completes, after the last one).
C8_EmptyResultTolerance ==
    \A i \in 1..Len(FetchOrder) :
        LET t == FetchOrder[i]
        IN nrows[t] = 0 =>
            /\ st[t] = "empty"
            /\ DataRows(sheets[t]) = DataRows(sheets0[t])
            /\ (outcome = "error" => idx # i)
            /\ IF i < Len(FetchOrder)
               THEN (pc = "fetch" /\ idx = i + 1) \/ st[FetchOrder[i + 1]] # "pending"
               ELSE pc = "done" /\ outcome = "completed"

C8_Witness ==
    /\ pc = "done"
    /\ nrows[RAW_SHEET] = 0
    /\ st[TOTAL_SHEET] = "appended"
    /\ st[DEVICE_SHEET] = "appended"
    /\ nrows[QUERY_SHEET] = 0

\* C9: the last date a run works with is the latest day among the anchor's
\* stored data rows (none when it stores none), and with data rows the
\* window starts on the day after that day.
C9_WatermarkFromSink ==
    Planned =>
        IF HasData(sheets0[TOTAL_SHEET])
        THEN /\ last_date_str = Strftime(MaxDay(sheets0[TOTAL_SHEET]))
             /\ start_date = MaxDay(sheets0[TOTAL_SHEET]) + 1
        ELSE last_date_str = None

\* C10: a run that finds neither GCP_CREDENTIALS nor credentials.json ends
\* at once: no call on the spreadsheet or a worksheet, no fetch, and the
\* spreadsheet is as it was.
C10_MissingCredentials ==
    (credEnv = "none" /\ ~(pc \in {"idle", "begin"}))
        => /\ pc = "done"
           /\ outcome = "no_credentials"
           /\ sinkOps = 0
           /\ \A t \in Targets : st[t] = "pending" /\ nrows[t] = -1
           /\ sheets = sheets0

C10_Witness ==
    /\ pc = "done"
    /\ credEnv = "none"
    /\ outcome = "no_credentials"
    /\ HasData(sheets[TOTAL_SHEET])

\* C11: the exit status of the process is 0 when the run ends completed or
\* as a no-op, and non-zero when it ends on a failed anchor fetch or append
\* or on missing credentials.
C11_ExitStatus ==
    pc = "done" =>
        /\ (outcome \in {"completed", "noop"} => ExitStatus(outcome) = 0)
        /\ ((outcome = "error" /\ st[TOTAL_SHEET] \in Failed)
                => ExitStatus(outcome) # 0)
        /\ (outcome = "no_credentials" => ExitStatus(outcome) # 0)

\* C12: a step of ensure_worksheet, raising or not, leaves every row of a
\* worksheet that has a first row as it is and touches no other worksheet;
\* a call that returns leaves the worksheet existing, with the header as
\* its only row when it had no row, and in a state a second call would
\* leave unchanged.
C12_EnsureIdempotent ==
    [][pc = "ensure" =>
        LET t == EnsureOrder[idx]
            w == sheets[t]
            w2 == sheets'[t]
        IN /\ \A u \in Targets \ {t} : sheets'[u] = sheets[u]
           /\ (w.rows # <<>> => w2.rows = w.rows)
           /\ DataRows(w2) = DataRows(w)
           /\ (pc' # "done" =>
                 /\ w2.exists
                 /\ (w.rows = <<>> => w2.rows = <<HeaderCell>>)
                 /\ ensure_worksheet(w2) = w2)]_vars

C12_Witness ==
    /\ runs = 2
    /\ pc = "ensure"
    /\ idx = 3
    /\ HasData(sheets[RAW_SHEET])
    /\ HasData(sheets[TOTAL_SHEET])
    /\ sheets[RAW_SHEET] = sheets0[RAW_SHEET]

\* positions in the log of the calls of one kind
Calls(op) == {i \in 1..Len(log) : log[i].op = op}
\* positions in the log of the calls of one kind on one target
CallsOn(op, t) == {i \in Calls(op) : log[i].t = t}

\* C13: a run reads the anchor column at most once and before its first
\* fetch; every fetch of the run, for whichever target, carries the same
\* startDate and endDate, those of the run's start_date and end_date, and
\* after a successful read start_date is the day after the latest day the
\* anchor stored when the run started, whatever was appended to it since.
C13_SharedWindow ==
    /\ Cardinality(Calls("read")) <= 1
    /\ \A i \in Calls("fetch") :
         /\ \E j \in Calls("read") : j < i
         /\ log[i].range = <<Strftime(start_date), Strftime(end_date)>>
         /\ \A j \in Calls("fetch") : log[j].range = log[i].range
    /\ (Planned /\ ~readFailed /\ HasData(sheets0[TOTAL_SHEET]))
          => start_date = MaxDay(sheets0[TOTAL_SHEET]) + 1

C13_Witness ==
    /\ pc = "done"
    /\ outcome = "completed"
    /\ Cardinality(Calls("fetch")) = 4
    /\ st[TOTAL_SHEET] = "appended"
    /\ HasData(sheets0[TOTAL_SHEET])
    /\ MaxDay(sheets[TOTAL_SHEET]) > MaxDay(sheets0[TOTAL_SHEET])

\* in this run each target is fetched at most once and appended to at most
\* once, an append follows a fetch of the same target that returned at
\* least one row, and there are at most 4 fetches and 4 appends
SinglePass ==
    /\ \A t \in Targets :
         /\ Cardinality(CallsOn("fetch", t)) <= 1
         /\ Cardinality(CallsOn("append", t)) <= 1
         /\ \A i \in CallsOn("append", t) :
              \E j \in CallsOn("fetch", t) : j < i /\ log[j].ok /\ log[j].n >= 1
    /\ Cardinality(Calls("fetch")) <= 4
    /\ Cardinality(Calls("append")) <= 4

\* the number of steps a run at position p, index i, can still take
Rank(p, i) ==
    IF p = "begin" THEN 20
    ELSE IF p = "open" THEN 19
    ELSE IF p = "ensure" THEN 19 - i
    ELSE IF p = "build" THEN 14
    ELSE IF p = "plan" THEN 13
    ELSE IF p = "fetch" THEN 14 - 2 * i
    ELSE IF p = "append" THEN 13 - 2 * i
    ELSE 0

\* the run stands at a statement of fetch_gsc_data that has a successor:
\* a call on one of the four worksheets or blocks, which returns or raises
AtStatement ==
    /\ Rank(pc, idx) > 0
    /\ (pc = "ensure" => idx \in 1..Len(EnsureOrder))
    /\ (pc \in {"fetch", "append"} => idx \in 1..Len(FetchOrder))
    /\ (pc = "fetch" => Responses(date_range[1], date_range[2]) # {})
    /\ (pc = "append" => rows # <<>>)

\* C14: every run is a single pass (SinglePass holds throughout), and every
\* run reaches its end: a run that has not ended stands at a statement with
\* a successor, and every step of a run lowers its rank, a natural number.
C14_SinglePassTerminates ==
    /\ []SinglePass
    /\ []((pc \in {"begin", "open", "ensure", "build", "plan", "fetch", "append"})
            => AtStatement)
    /\ [][pc' # "begin" => Rank(pc', idx') < Rank(pc, idx)]_vars

C14_Witness ==
    /\ pc = "done"
    /\ outcome = "completed"
    /\ Cardinality(Calls("fetch")) = 4
    /\ Cardinality(Calls("append")) = 4

\* place of a target in the order of the blocks
Pos(t) == CHOOSE i \in 1..Len(FetchOrder) : FetchOrder[i] = t

\* C15: the fetches and appends of a run follow the order Daily_Total,
\* Raw_Data, Device_Data, Query_Data; a target is fetched only when every
\* earlier target ended with an empty result or a successful append; and a
\* target appended to keeps, whatever happens later in the run, the rows it
\* had at the start followed by the rows appended.
C15_PrefixOrder ==
    /\ \A a, b \in Calls("fetch") \cup Calls("append") :
         a < b => Pos(log[a].t) <= Pos(log[b].t)
    /\ \A i \in 1..Len(FetchOrder) :
         st[FetchOrder[i]] # "pending"
            => \A j \in 1..(i - 1) : st[FetchOrder[j]] \in {"empty", "appended"}
    /\ \A t \in Targets :
         st[t] = "appended"
            => /\ Len(DataRows(sheets[t])) = Len(DataRows(sheets0[t])) + nrows[t]
               /\ SubSeq(DataRows(sheets[t]), 1, Len(DataRows(sheets0[t])))
                    = DataRows(sheets0[t])

C15_Witness ==
    /\ pc = "done"
    /\ outcome = "error"
    /\ st[TOTAL_SHEET] = "appended"
    /\ st[RAW_SHEET] = "appended"
    /\ st[DEVICE_SHEET] = "fetch_failed"
    /\ st[QUERY_SHEET] = "pending"
    /\ HasData(sheets0[RAW_SHEET])

\* C16: over the runs, the latest day stored in Daily_Total never moves
\* back in a run, is never later than today - 3 days, and is later at the
\* end of a run that appended anchor rows than it was at its start.
C16_AnchorMonotone ==
    /\ HasData(sheets0[TOTAL_SHEET])
          => /\ HasData(sheets[TOTAL_SHEET])
             /\ MaxDay(sheets[TOTAL_SHEET]) >= MaxDay(sheets0[TOTAL_SHEET])
    /\ HasData(sheets[TOTAL_SHEET]) => MaxDay(sheets[TOTAL_SHEET]) <= today - 3
    /\ (st[TOTAL_SHEET] = "appended" /\ HasData(sheets0[TOTAL_SHEET]))
          => MaxDay(sheets[TOTAL_SHEET]) > MaxDay(sheets0[TOTAL_SHEET])

\* C17: when client.open or any of the four ensure_worksheet calls raises,
\* the run is over: it reads no column, issues no fetch and appends no
\* data row to any target.
C17_SetupFailure ==
    \A i \in Calls("open") \cup Calls("ensure") :
        ~log[i].ok =>
            /\ pc = "done"
            /\ i = Len(log)
            /\ Calls("read") = {}
            /\ Calls("fetch") = {}
            /\ Calls("append") = {}
            /\ \A t \in Targets : Untouched(t)

C17_Witness ==
    /\ pc = "done"
    /\ Len(log) = 4
    /\ log[2].op = "ensure" /\ log[2].t = RAW_SHEET /\ log[2].ok
    /\ log[3].op = "ensure" /\ log[3].t = TOTAL_SHEET /\ log[3].ok
    /\ log[4].op = "ensure" /\ log[4].t = DEVICE_SHEET /\ ~log[4].ok
    /\ HasData(sheets[TOTAL_SHEET])

====
